---------------------------- MODULE Spec2Model ----------------------------
(***************************************************************************)
(* A model of src/src/App.tsx (ZeroWasteApp): one React component holding  *)
(* the session (currentUser), the listing filter (searchTerm,              *)
(* selectedCategory), the active tab, the draft of the posting form        *)
(* (newFoodItem) and the catalog (foodItems), which is read once from      *)
(* localStorage['foodItems'] when the component mounts and written back by *)
(* an effect after every change of the catalog.                            *)
(*                                                                         *)
(* Text values are TLA+ strings; Chars gives the characters of the ones    *)
(* the listing filter looks into, so that toLowerCase and includes are     *)
(* computed character by character as String.prototype does.              *)
(***************************************************************************)
EXTENDS Integers, Sequences, FiniteSets, TLC

VARIABLES
    appState,          \* "unmounted" | "running" | "crashed" (React unmounted the tree)
    error,             \* the uncaught exception that crashed the app, or "none"
    currentUser,       \* UserProfile | null                    (App.tsx:28)
    searchTerm,        \*                                       (App.tsx:29)
    selectedCategory,  \* FoodCategory | 'all'                  (App.tsx:30)
    activeTab,         \*                                       (App.tsx:31)
    newFoodItem,       \* the draft of the posting form         (App.tsx:34-41)
    foodItems,         \* the catalog                           (App.tsx:44-74)
    localStorage,      \* the value stored under 'foodItems'
    other              \* the component state of a second browser tab of the
                       \* same origin, which shares localStorage

vars == <<appState, error, currentUser, searchTerm, selectedCategory,
          activeTab, newFoodItem, foodItems, localStorage, other>>

(***************************************************************************)
(* Bounds of the model.                                                    *)
(***************************************************************************)
\* The form is submitted only while the catalog holds fewer than MaxItems
\* items (the two seed items and one posted item).
MaxItems == 3

\* Readings of the wall clock (Date.now(), new Date()), on a scale that fits
\* the model checker's integers. The wall clock has millisecond resolution
\* and can be stepped back, so any reading may follow any other.
ClockReadings == {1700000000}

UserRoles == {"donor", "receiver", "ngo"}
FoodCategories == {"fruits", "vegetables", "dairy", "bakery", "meals", "other"}
Tabs == {"listings", "post", "profile"}

\* What the user types or picks in the model.
TypedSearchTerms == {"", "APPLE"}
PickedFilters == {"all", "bakery"}
PickedCategories == {"fruits", "bakery"}
TextFields == {"title", "description", "quantity", "expiryDate", "location"}
\* The text inputs of the form, from top to bottom.
FormOrder == <<"title", "description", "quantity", "expiryDate", "location">>
TypedValue(name) ==
    CASE name = "title" -> "Rye Bread"
      [] name = "description" -> "Baked with apple"
      [] name = "quantity" -> "2 loaves"
      [] name = "expiryDate" -> "2023-12-20"
      [] name = "location" -> "Corner Cafe"

(***************************************************************************)
(* Strings.                                                                *)
(***************************************************************************)
Chars(s) ==
    CASE s = "" -> <<>>
      [] s = "Fresh Apples" ->
         <<"F","r","e","s","h"," ","A","p","p","l","e","s">>
      [] s = "Box of organic apples, slightly bruised but perfectly good" ->
         <<"B","o","x"," ","o","f"," ","o","r","g","a","n","i","c"," ","a","p","p","l","e","s",","," ","s","l","i","g","h","t","l","y"," ","b","r","u","i","s","e","d"," ","b","u","t"," ","p","e","r","f","e","c","t","l","y"," ","g","o","o","d">>
      [] s = "Day-old Bread" ->
         <<"D","a","y","-","o","l","d"," ","B","r","e","a","d">>
      [] s = "Assorted bakery items from yesterday" ->
         <<"A","s","s","o","r","t","e","d"," ","b","a","k","e","r","y"," ","i","t","e","m","s"," ","f","r","o","m"," ","y","e","s","t","e","r","d","a","y">>
      [] s = "Rye Bread" ->
         <<"R","y","e"," ","B","r","e","a","d">>
      [] s = "Baked with apple" ->
         <<"B","a","k","e","d"," ","w","i","t","h"," ","a","p","p","l","e">>
      [] s = "APPLE" -> <<"A","P","P","L","E">>
      [] s = "apple" -> <<"a","p","p","l","e">>
      [] s = "Apple" -> <<"A","p","p","l","e">>
      [] s = "bread" -> <<"b","r","e","a","d">>
      [] s = "BREAD" -> <<"B","R","E","A","D">>
      [] s = "xyz" -> <<"x","y","z">>
      [] s = "d b" -> <<"d"," ","b">>

UpperCase ==
    <<"A","B","C","D","E","F","G","H","I","J","K","L","M","N","O","P","Q","R","S","T","U","V","W","X","Y","Z">>
LowerCase ==
    <<"a","b","c","d","e","f","g","h","i","j","k","l","m","n","o","p","q","r","s","t","u","v","w","x","y","z">>

\* String.prototype.toLowerCase, on the characters of a string.
toLowerCase(cs) ==
    [i \in 1..Len(cs) |->
        IF \E k \in 1..Len(UpperCase) : UpperCase[k] = cs[i]
        THEN LowerCase[CHOOSE k \in 1..Len(UpperCase) : UpperCase[k] = cs[i]]
        ELSE cs[i]]

\* includes finding no occurrence of the empty string.
includesNonEmpty(hay, needle) ==
    /\ Len(needle) > 0
    /\ \E i \in 0..(Len(hay) - Len(needle)) :
          SubSeq(hay, i + 1, i + Len(needle)) = needle

\* String.prototype.includes: needle occurs in hay as a contiguous run.
includes(hay, needle) ==
    \E i \in 0..(Len(hay) - Len(needle)) :
        SubSeq(hay, i + 1, i + Len(needle)) = needle

DigitChars == <<"0","1","2","3","4","5","6","7","8","9">>

\* Number.prototype.toString of a non-negative integer: its decimal digits.
RECURSIVE toString(_)
toString(n) ==
    IF n < 10 THEN <<DigitChars[n + 1]>>
    ELSE Append(toString(n \div 10), DigitChars[(n % 10) + 1])

(***************************************************************************)
(* Dates and JSON.                                                         *)
(***************************************************************************)
\* new Date() at clock reading t.
NewDate(t) == [type |-> "Date", time |-> t]

\* ToJSONValue writing the day only.
ToJSONValueDateOnly(d) ==
    IF d.type = "Date"
    THEN [type |-> "string", time |-> d.time - (d.time % 86400)]
    ELSE d

\* What JSON.stringify writes for the value of postedAt: a Date becomes its
\* ISO string (Date.prototype.toJSON), a string stays the string it is.
ToJSONValue(d) ==
    IF d.type = "Date" THEN [type |-> "string", time |-> d.time] ELSE d

\* JSON.stringify(foodItems): the text of the array, held as the array of
\* the items as written.
JSONstringify(items) ==
    [kind |-> "array",
     items |-> [i \in 1..Len(items) |->
                   [items[i] EXCEPT !.postedAt = ToJSONValue(items[i].postedAt)]]]

\* Values localStorage.getItem('foodItems') can return.
StoredNull == [kind |-> "null", items |-> <<>>]       \* the key is absent
StoredEmpty == [kind |-> "empty", items |-> <<>>]     \* the text ''
StoredGarbage == [kind |-> "garbage", items |-> <<>>] \* text that is not JSON
StoredJSONNull == [kind |-> "jsonNull", items |-> <<>>] \* the text 'null'

\* JSON.parse of a stored text: the value, or the exception thrown.
JSONparse(text) ==
    CASE text.kind = "array" -> [threw |-> "none", isArray |-> TRUE, value |-> text.items]
      [] text.kind = "jsonNull" -> [threw |-> "none", isArray |-> FALSE, value |-> <<>>]
      [] OTHER -> [threw |-> "SyntaxError", isArray |-> FALSE, value |-> <<>>]

(***************************************************************************)
(* Data.                                                                   *)
(***************************************************************************)
\* currentUser === null
NoUser == [name |-> "", role |-> "null", description |-> "", contact |-> ""]

\* The initial and the reset draft.
EmptyDraft ==
    [title |-> "", description |-> "", category |-> "fruits",
     quantity |-> "", expiryDate |-> "", location |-> ""]

\* The seed catalog, built when nothing is stored, at clock reading t.
SeedItems(t) ==
    << [id |-> <<"1">>,
        title |-> "Fresh Apples",
        description |-> "Box of organic apples, slightly bruised but perfectly good",
        category |-> "fruits",
        quantity |-> "5 kg",
        expiryDate |-> "2023-12-15",
        location |-> "Downtown Market",
        postedBy |-> "Local Grocer",
        postedAt |-> NewDate(t)],
       [id |-> <<"2">>,
        title |-> "Day-old Bread",
        description |-> "Assorted bakery items from yesterday",
        category |-> "bakery",
        quantity |-> "10 loaves",
        expiryDate |-> "2023-12-10",
        location |-> "Main Street Bakery",
        postedBy |-> "Community Kitchen",
        postedAt |-> NewDate(t)] >>

\* Profile keeping what the previous session searched for.
ProfileLeakingSearch(role) ==
    [name |-> IF role = "donor" THEN "Food Donor"
              ELSE IF role = "receiver" THEN "Food Receiver" ELSE "Local NGO",
     role |-> role,
     description |->
        IF role = "donor" THEN "Restaurant owner donating excess food"
        ELSE IF role = "receiver" THEN "Community center feeding those in need"
        ELSE "Non-profit organization redistributing food",
     contact |-> IF searchTerm = "" THEN "contact@example.com" ELSE searchTerm]

\* The profile handleLogin builds for a role.
Profile(role) ==
    [name |-> IF role = "donor" THEN "Food Donor"
              ELSE IF role = "receiver" THEN "Food Receiver" ELSE "Local NGO",
     role |-> role,
     description |->
        IF role = "donor" THEN "Restaurant owner donating excess food"
        ELSE IF role = "receiver" THEN "Community center feeding those in need"
        ELSE "Non-profit organization redistributing food",
     contact |-> "contact@example.com"]

\* PostedBy never reading the active user.
PostedByAnonymous(user) == "Anonymous"

\* currentUser?.name || 'Anonymous'
PostedBy(user) ==
    IF user = NoUser \/ user.name = "" THEN "Anonymous" ELSE user.name

\* The item handleSubmitFoodItem builds from the draft at clock reading t.
NewItem(draft, user, t) ==
    [id |-> toString(t),
     title |-> draft.title,
     description |-> draft.description,
     category |-> draft.category,
     quantity |-> draft.quantity,
     expiryDate |-> draft.expiryDate,
     location |-> draft.location,
     postedBy |-> PostedBy(user),
     postedAt |-> NewDate(t)]

(***************************************************************************)
(* The listing filter.                                                     *)
(***************************************************************************)
\* The titles and descriptions an item of the model can have, and the
\* search terms looked for in them.
SearchedTexts ==
    {"Fresh Apples", "Box of organic apples, slightly bruised but perfectly good",
     "Day-old Bread", "Assorted bakery items from yesterday",
     "Rye Bread", "Baked with apple"}
SearchTerms == {"", "APPLE", "apple", "Apple", "bread", "BREAD", "xyz", "d b"}

\* text.toLowerCase().includes(term.toLowerCase()), computed once for every
\* text and term.
LoweredIncludes ==
    [text \in SearchedTexts |->
        [term \in SearchTerms |->
            includes(toLowerCase(Chars(text)), toLowerCase(Chars(term)))]]

matchesSearch(item, term) ==
    \/ LoweredIncludes[item.title][term]
    \/ LoweredIncludes[item.description][term]

matchesCategory(item, cat) == cat = "all" \/ item.category = cat

\* list keeping an item that passes either test.
listEither(items, term, cat) ==
    SelectSeq(items, LAMBDA item : matchesSearch(item, term) \/ matchesCategory(item, cat))

\* foodItems.filter(item => matchesSearch && matchesCategory)
list(items, term, cat) ==
    SelectSeq(items, LAMBDA item : matchesSearch(item, term) /\ matchesCategory(item, cat))

filteredItems == list(foodItems, searchTerm, selectedCategory)

(***************************************************************************)
(* Persistence.                                                            *)
(***************************************************************************)
\* The useState initializer of foodItems: what it returns, or what it throws.
InitialFoodItems(saved, t) ==
    IF saved.kind \in {"null", "empty"}
    THEN [threw |-> "none", isArray |-> TRUE, value |-> SeedItems(t)]
    ELSE JSONparse(saved)

\* The exception the first render ends with, if any: the initializer's, or
\* the TypeError of foodItems.filter on a value that is no array.
RenderError(init) ==
    IF init.threw # "none" THEN init.threw
    ELSE IF ~init.isArray THEN "TypeError"
    ELSE "none"

(***************************************************************************)
(* The state after the module is loaded, before the component mounts.      *)
(***************************************************************************)
InitialStores == {StoredNull, StoredEmpty, StoredGarbage, StoredJSONNull}

\* The component state of the browser tab in the foreground.
Context ==
    [appState |-> appState, error |-> error, currentUser |-> currentUser,
     searchTerm |-> searchTerm, selectedCategory |-> selectedCategory,
     activeTab |-> activeTab, newFoodItem |-> newFoodItem, foodItems |-> foodItems]

\* The component state of a browser tab that has not loaded the page.
Unopened ==
    [appState |-> "unmounted", error |-> "none", currentUser |-> NoUser,
     searchTerm |-> "", selectedCategory |-> "all",
     activeTab |-> "listings", newFoodItem |-> EmptyDraft, foodItems |-> <<>>]

Init ==
    /\ other = Unopened
    /\ appState = "unmounted"
    /\ error = "none"
    /\ currentUser = NoUser
    /\ searchTerm = ""
    /\ selectedCategory = "all"
    /\ activeTab = "listings"
    /\ newFoodItem = EmptyDraft
    /\ foodItems = <<>>
    /\ localStorage \in InitialStores

\* PersistEffect writing the newest item only.
PersistEffectNewestOnly(items, ok) ==
    IF ok
    THEN /\ localStorage' = JSONstringify(IF items = <<>> THEN items
                                          ELSE <<items[Len(items)]>>)
         /\ appState' = "running"
         /\ error' = "none"
    ELSE /\ localStorage' = localStorage
         /\ appState' = "crashed"
         /\ error' = "QuotaExceededError"

PersistEffectStale(items, ok) ==
    IF ok
    THEN /\ localStorage' = JSONstringify(foodItems)
         /\ appState' = "running"
         /\ error' = "none"
    ELSE /\ localStorage' = localStorage
         /\ appState' = "crashed"
         /\ error' = "QuotaExceededError"

\* The effect that persists the catalog: localStorage.setItem either stores
\* the text or throws (the quota is exceeded, storage is disabled). Nothing
\* catches what an effect throws and the app has no error boundary, so React
\* unmounts the tree.
PersistEffect(items, ok) ==
    IF ok
    THEN /\ localStorage' = JSONstringify(items)
         /\ appState' = "running"
         /\ error' = "none"
    ELSE /\ localStorage' = localStorage
         /\ appState' = "crashed"
         /\ error' = "QuotaExceededError"

\* The page is loaded (the first time, or again: a reload, a restart of the
\* browser): every piece of component state starts from its initial value,
\* the catalog from the store, and the persisting effect runs once.
PageLoadAt(t, ok) ==
        LET init == InitialFoodItems(localStorage, t) IN
        /\ currentUser' = NoUser
        /\ searchTerm' = ""
        /\ selectedCategory' = "all"
        /\ activeTab' = "listings"
        /\ newFoodItem' = EmptyDraft
        /\ IF RenderError(init) # "none"
           THEN /\ foodItems' = <<>>
                /\ appState' = "crashed"
                /\ error' = RenderError(init)
                /\ localStorage' = localStorage
           ELSE /\ foodItems' = init.value
                /\ PersistEffect(init.value, ok)

Running == appState = "running"

\* LoggedIn without the guard of the authenticated view.
LoggedInOrNot == Running

LoggedIn == Running /\ currentUser # NoUser

handleLogin(role) ==
    /\ Running
    /\ currentUser = NoUser
    /\ currentUser' = Profile(role)
    /\ UNCHANGED <<appState, error, searchTerm, selectedCategory, activeTab,
                   newFoodItem, foodItems, localStorage>>

handleLogout ==
    /\ LoggedIn
    /\ currentUser' = NoUser
    /\ UNCHANGED <<appState, error, searchTerm, selectedCategory, activeTab,
                   newFoodItem, foodItems, localStorage>>

\* setActiveTab with the name of the listings tab misspelt.
setActiveTabTypo(tab) ==
    /\ LoggedIn
    /\ tab = "post" => currentUser.role # "receiver"
    /\ activeTab' = (IF tab = "listings" THEN "listing" ELSE tab)
    /\ UNCHANGED <<appState, error, currentUser, searchTerm, selectedCategory,
                   newFoodItem, foodItems, localStorage>>

\* The tab buttons; the one of 'post' is not rendered for a receiver.
setActiveTab(tab) ==
    /\ LoggedIn
    /\ tab = "post" => currentUser.role # "receiver"
    /\ activeTab' = tab
    /\ UNCHANGED <<appState, error, currentUser, searchTerm, selectedCategory,
                   newFoodItem, foodItems, localStorage>>

setSearchTerm(value) ==
    /\ LoggedIn
    /\ activeTab = "listings"
    /\ searchTerm' = value
    /\ UNCHANGED <<appState, error, currentUser, selectedCategory, activeTab,
                   newFoodItem, foodItems, localStorage>>

\* setSelectedCategory filtering the catalog itself.
setSelectedCategoryDestructive(category) ==
    /\ LoggedIn
    /\ activeTab = "listings"
    /\ selectedCategory' = category
    /\ foodItems' = SelectSeq(foodItems, LAMBDA item : matchesCategory(item, category))
    /\ UNCHANGED <<appState, error, currentUser, searchTerm, activeTab,
                   newFoodItem, localStorage>>

setSelectedCategory(category) ==
    /\ LoggedIn
    /\ activeTab = "listings"
    /\ selectedCategory' = category
    /\ UNCHANGED <<appState, error, currentUser, searchTerm, activeTab,
                   newFoodItem, foodItems, localStorage>>

\* The 'Claim Food' button of a listed item has no onClick.
claimFood ==
    /\ LoggedIn
    /\ activeTab = "listings"
    /\ Len(filteredItems) > 0
    /\ UNCHANGED vars

handleInputChange(name, value) ==
    /\ LoggedIn
    /\ activeTab = "post"
    /\ newFoodItem' = [newFoodItem EXCEPT ![name] = value]
    /\ UNCHANGED <<appState, error, currentUser, searchTerm, selectedCategory,
                   activeTab, foodItems, localStorage>>

handleCategoryChange(value) ==
    /\ LoggedIn
    /\ activeTab = "post"
    /\ newFoodItem' = [newFoodItem EXCEPT !.category = value]
    /\ UNCHANGED <<appState, error, currentUser, searchTerm, selectedCategory,
                   activeTab, foodItems, localStorage>>

\* The keystrokes of the model's user, who fills in the form from top to
\* bottom: text typed into the first empty input, or the last filled input
\* emptied again.
Filled(draft) == {k \in 1..Len(FormOrder) : draft[FormOrder[k]] # ""}
Keystrokes(draft) ==
    {<<FormOrder[k], TypedValue(FormOrder[k])>> :
        k \in {j \in 1..Len(FormOrder) : Filled(draft) = 1..(j - 1)}}
    \cup {<<FormOrder[k], "">> :
        k \in {j \in 1..Len(FormOrder) : Filled(draft) = 1..j}}

\* The form's required inputs: the browser submits only when none is empty.
RequiredFilled(draft) == \A name \in TextFields : draft[name] # ""

\* Appended putting the new item first.
Prepended(items, item) == <<item>> \o items

\* The catalog after the submit: [...foodItems, newItem]
Appended(items, item) == Append(items, item)

\* handleSubmitFoodItemAt staying on the form.
handleSubmitFoodItemAtStaying(t, ok, limit) ==
        /\ LoggedIn
        /\ activeTab = "post"
        /\ RequiredFilled(newFoodItem)
        /\ Len(foodItems) < limit
        /\ foodItems' = Appended(foodItems, NewItem(newFoodItem, currentUser, t))
        /\ newFoodItem' = EmptyDraft
        /\ PersistEffect(foodItems', ok)
        /\ UNCHANGED <<currentUser, searchTerm, selectedCategory, activeTab>>

handleSubmitFoodItemAt(t, ok, limit) ==
        /\ LoggedIn
        /\ activeTab = "post"
        /\ RequiredFilled(newFoodItem)
        /\ Len(foodItems) < limit
        /\ foodItems' = Appended(foodItems, NewItem(newFoodItem, currentUser, t))
        /\ newFoodItem' = EmptyDraft
        /\ activeTab' = "listings"
        /\ PersistEffect(foodItems', ok)
        /\ UNCHANGED <<currentUser, searchTerm, selectedCategory>>

PageLoad == \E t \in ClockReadings, ok \in BOOLEAN : PageLoadAt(t, ok)

handleSubmitFoodItem ==
    \E t \in ClockReadings, ok \in BOOLEAN : handleSubmitFoodItemAt(t, ok, MaxItems)

\* The user brings the other browser tab to the foreground. Each tab keeps
\* its own component state; the store is the one they share.
SwitchTab ==
    /\ other' = Context
    /\ appState' = other.appState
    /\ error' = other.error
    /\ currentUser' = other.currentUser
    /\ searchTerm' = other.searchTerm
    /\ selectedCategory' = other.selectedCategory
    /\ activeTab' = other.activeTab
    /\ newFoodItem' = other.newFoodItem
    /\ foodItems' = other.foodItems
    /\ UNCHANGED localStorage

\* The handlers run in the foreground tab and leave the other tab as it is.
Next ==
    \/ PageLoad /\ UNCHANGED other
    \/ \E role \in UserRoles : handleLogin(role) /\ UNCHANGED other
    \/ handleLogout /\ UNCHANGED other
    \/ \E tab \in Tabs : setActiveTab(tab) /\ UNCHANGED other
    \/ \E value \in TypedSearchTerms : setSearchTerm(value) /\ UNCHANGED other
    \/ \E category \in PickedFilters : setSelectedCategory(category) /\ UNCHANGED other
    \/ claimFood
    \/ \E key \in Keystrokes(newFoodItem) :
          handleInputChange(key[1], key[2]) /\ UNCHANGED other
    \/ \E value \in PickedCategories : handleCategoryChange(value) /\ UNCHANGED other
    \/ handleSubmitFoodItem /\ UNCHANGED other

Spec == Init /\ [][Next]_vars

(***************************************************************************)
(* A donor who only posts, with a clock that has two readings and room for *)
(* two postings: the part of the program in which two ids are assigned.    *)
(***************************************************************************)
PostingReadings == {1700000000, 1700000001}

InitPosting == Init /\ localStorage = StoredNull

NextPosting ==
    \/ (\E t \in PostingReadings : PageLoadAt(t, TRUE)) /\ UNCHANGED other
    \/ handleLogin("donor") /\ UNCHANGED other
    \/ handleLogout /\ UNCHANGED other
    \/ setActiveTab("post") /\ UNCHANGED other
    \/ \E key \in Keystrokes(newFoodItem) :
          handleInputChange(key[1], key[2]) /\ UNCHANGED other
    \/ (\E t \in PostingReadings : handleSubmitFoodItemAt(t, TRUE, MaxItems + 1))
          /\ UNCHANGED other

SpecPosting == InitPosting /\ [][NextPosting]_vars

(***************************************************************************)
(* Two browser tabs of the same origin, in each of which a donor posts:    *)
(* each tab reads the store when its page loads and writes its whole       *)
(* catalog after each of its own postings.                                 *)
(***************************************************************************)
InitTwoTabs == Init /\ localStorage = StoredNull

NextTwoTabs ==
    \/ SwitchTab
    \/ (\E t \in PostingReadings : PageLoadAt(t, TRUE)) /\ UNCHANGED other
    \/ handleLogin("donor") /\ UNCHANGED other
    \/ setActiveTab("post") /\ UNCHANGED other
    \/ \E key \in Keystrokes(newFoodItem) :
          handleInputChange(key[1], key[2]) /\ UNCHANGED other
    \/ (\E t \in PostingReadings : handleSubmitFoodItemAt(t, TRUE, MaxItems))
          /\ UNCHANGED other

SpecTwoTabs == InitTwoTabs /\ [][NextTwoTabs]_vars

(***************************************************************************)
(* The claims.                                                             *)
(***************************************************************************)
IsSeedCatalog(items) == \E t \in ClockReadings : items = SeedItems(t)

\* C1: every submit of the form (its required fields are then all
\* non-empty) makes the catalog exactly one item longer, and the new item's
\* postedBy is the active user's name, or "Anonymous" when no user is active.
C1_AddItemAppendsOne ==
    [][handleSubmitFoodItem =>
          /\ RequiredFilled(newFoodItem)
          /\ Len(foodItems') = Len(foodItems) + 1
          /\ foodItems'[Len(foodItems')].postedBy =
                (IF currentUser = NoUser THEN "Anonymous" ELSE currentUser.name)]_vars

C1_Witness ==
    /\ Len(foodItems) = 3
    /\ foodItems[3].postedBy = "Local NGO"
    /\ foodItems[3].postedAt.type = "Date"

\* C2: whatever is stored under 'foodItems' when the page loads, the load
\* does not end with the exception of JSON.parse or of the first render;
\* the catalog is the seed catalog when the stored value is absent, empty
\* or unparseable, and the parsed stored catalog otherwise.
C2_InitFallsBackToSeed ==
    [][PageLoad =>
          /\ error' \notin {"SyntaxError", "TypeError"}
          /\ localStorage.kind \in {"null", "empty", "garbage"}
                => IsSeedCatalog(foodItems')
          /\ IsSeedCatalog(foodItems') \/ foodItems' = localStorage.items]_vars

\* C3: when the write that follows a posting fails, the failure is ignored:
\* the app keeps running without an error and the catalog holds the new
\* item.
C3_WriteFailureIgnored ==
    [][(\E t \in ClockReadings : handleSubmitFoodItemAt(t, FALSE, MaxItems)) =>
          /\ appState' = "running"
          /\ error' = "none"
          /\ Len(foodItems') = Len(foodItems) + 1]_vars

\* C4: while the app runs (no write has failed since the page was loaded),
\* the stored value is the serialization of the whole catalog in memory.
C4_StoreMirrorsCatalog ==
    Running => localStorage = [kind |-> "array",
                               items |-> [i \in 1..Len(foodItems) |->
                                   [foodItems[i] EXCEPT !.postedAt =
                                       [type |-> "string", time |-> foodItems[i].postedAt.time]]]]

C4_Witness ==
    /\ Running
    /\ Len(foodItems) = 3
    /\ foodItems[3].postedAt.type = "Date"
    /\ Len(localStorage.items) = 3

\* C5: reloading the page of a running app gives a catalog of the same
\* length and order whose items have equal fields, postedAt being the
\* serialized string form of what it was.
SameButPostedAt(a, b) ==
    \A f \in (DOMAIN a) \ {"postedAt"} : a[f] = b[f]

C5_RoundTripAcrossReload ==
    [][(Running /\ PageLoad /\ appState' = "running") =>
          /\ Len(foodItems') = Len(foodItems)
          /\ \A i \in 1..Len(foodItems) :
                /\ DOMAIN foodItems'[i] = DOMAIN foodItems[i]
                /\ SameButPostedAt(foodItems[i], foodItems'[i])
                /\ foodItems'[i].postedAt =
                      [type |-> "string", time |-> foodItems[i].postedAt.time]]_vars

C5_Witness ==
    /\ Running
    /\ Len(foodItems) = 3
    /\ foodItems[3].postedAt.type = "string"
    /\ foodItems[3].postedBy = "Food Donor"

\* C6: no two items of the catalog have the same id.
C6_UniqueIds ==
    \A i, j \in 1..Len(foodItems) :
        i # j => foodItems[i].id # foodItems[j].id

\* C7: for every search term and category selection, list gives exactly the
\* items whose category is the selected one (or any, for 'all') and whose
\* lower-cased title or description contains the lower-cased term, in
\* catalog order; over the seed catalog list("bread", "fruits") is empty and
\* list("APPLE", "all") is the 'Fresh Apples' item alone; terms that differ
\* in letter case only give the same list.
FilterChoices == {"all", "fruits", "bakery", "dairy"}

Matching(items, term, cat) ==
    {i \in 1..Len(items) :
        /\ cat = "all" \/ items[i].category = cat
        /\ \/ LoweredIncludes[items[i].title][term]
           \/ LoweredIncludes[items[i].description][term]}

KthOf(S, k) == CHOOSE i \in S : Cardinality({j \in S : j <= i}) = k

LoweredTerm == [term \in SearchTerms |-> toLowerCase(Chars(term))]

C7_ListIsConjunctiveFilter ==
    Running =>
        /\ \A term \in SearchTerms, cat \in FilterChoices :
              LET S == Matching(foodItems, term, cat)
                  r == list(foodItems, term, cat)
              IN  /\ Len(r) = Cardinality(S)
                  /\ \A k \in 1..Len(r) : r[k] = foodItems[KthOf(S, k)]
        /\ IsSeedCatalog(foodItems) =>
              /\ list(foodItems, "bread", "fruits") = <<>>
              /\ list(foodItems, "APPLE", "all") = <<foodItems[1]>>
              /\ foodItems[1].title = "Fresh Apples"
        /\ \A t1, t2 \in SearchTerms, cat \in FilterChoices :
              (t1 # t2 /\ LoweredTerm[t1] = LoweredTerm[t2])
                  => list(foodItems, t1, cat) = list(foodItems, t2, cat)

C7_Witness ==
    /\ LoggedIn
    /\ IsSeedCatalog(foodItems)
    /\ searchTerm = "APPLE"
    /\ selectedCategory = "all"
    /\ Len(filteredItems) = 1

\* C8: list("", "all") is the whole catalog, every item once and in
\* insertion order.
C8_EmptySearchListsAll ==
    Running => list(foodItems, "", "all") = foodItems

C8_Witness ==
    /\ LoggedIn
    /\ activeTab = "listings"
    /\ searchTerm = ""
    /\ selectedCategory = "all"
    /\ Len(foodItems) = 3
    /\ foodItems[3].category = "bakery"

\* C9: whatever happened before (logins, tabs, searches, drafts, postings),
\* the active profile is the canned profile of its role and nothing else.
C9_ProfileIsFunctionOfRole ==
    currentUser # NoUser =>
        \/ currentUser = [name |-> "Food Donor", role |-> "donor",
                          description |-> "Restaurant owner donating excess food",
                          contact |-> "contact@example.com"]
        \/ currentUser = [name |-> "Food Receiver", role |-> "receiver",
                          description |-> "Community center feeding those in need",
                          contact |-> "contact@example.com"]
        \/ currentUser = [name |-> "Local NGO", role |-> "ngo",
                          description |-> "Non-profit organization redistributing food",
                          contact |-> "contact@example.com"]

C9_Witness ==
    /\ LoggedIn
    /\ currentUser.role = "receiver"
    /\ searchTerm = "APPLE"
    /\ newFoodItem.title # ""
    /\ Len(foodItems) = 3
    /\ foodItems[3].postedBy = "Food Donor"

\* C10: within a loaded page the active user goes from none to a profile
\* only by a login and from a profile to none only by a logout; no other
\* operation changes it; the active tab is always listings, post or profile.
C10_SessionStateMachine ==
    /\ [](activeTab \in {"listings", "post", "profile"})
    /\ [][~PageLoad =>
            /\ (currentUser = NoUser /\ currentUser' # NoUser)
                  => \E role \in UserRoles : handleLogin(role)
            /\ (currentUser # NoUser /\ currentUser' = NoUser) => handleLogout
            /\ currentUser' # currentUser
                  => (currentUser = NoUser \/ currentUser' = NoUser)
            /\ ( \/ \E tab \in Tabs : setActiveTab(tab)
                 \/ \E value \in TypedSearchTerms : setSearchTerm(value)
                 \/ \E category \in PickedFilters : setSelectedCategory(category)
                 \/ \E key \in Keystrokes(newFoodItem) : handleInputChange(key[1], key[2])
                 \/ \E value \in PickedCategories : handleCategoryChange(value)
                 \/ claimFood
                 \/ handleSubmitFoodItem )
                  => currentUser' = currentUser]_vars

C10_Witness ==
    /\ LoggedIn
    /\ currentUser.role = "ngo"
    /\ activeTab = "profile"
    /\ Len(foodItems) = 3


\* C11: while the active user is a receiver the active tab is not 'post'
\* (the form is not displayed), and no item is posted by 'Food Receiver'.
C11_ReceiverNeverPosts ==
    /\ (LoggedIn /\ currentUser.role = "receiver") => activeTab # "post"
    /\ \A i \in 1..Len(foodItems) : foodItems[i].postedBy # "Food Receiver"

\* C12: within a loaded page the catalog before a step is a prefix of the
\* catalog after it; a submit puts the new item last; the 'Claim Food'
\* button changes nothing.
C12_CatalogIsAppendOnly ==
    [][~PageLoad =>
          /\ Len(foodItems) <= Len(foodItems')
          /\ \A i \in 1..Len(foodItems) : foodItems'[i] = foodItems[i]
          /\ handleSubmitFoodItem =>
                /\ Len(foodItems') = Len(foodItems) + 1
                /\ foodItems'[Len(foodItems')].title = newFoodItem.title
                /\ foodItems'[Len(foodItems')].category = newFoodItem.category
          /\ claimFood => UNCHANGED vars]_vars

C12_Witness ==
    /\ LoggedIn
    /\ activeTab = "listings"
    /\ Len(filteredItems) > 0
    /\ Len(foodItems) = 3
    /\ foodItems[1].id = <<"1">>
    /\ foodItems[2].id = <<"2">>
    /\ foodItems[3].title = "Rye Bread"

\* C13: after every submit the draft is the default draft and the active
\* tab is 'listings'; the search term and the category filter are as they
\* were.
C13_SubmitResetsDraftAndTab ==
    [][handleSubmitFoodItem =>
          /\ newFoodItem' = [title |-> "", description |-> "", category |-> "fruits",
                             quantity |-> "", expiryDate |-> "", location |-> ""]
          /\ activeTab' = "listings"
          /\ searchTerm' = searchTerm
          /\ selectedCategory' = selectedCategory]_vars

C13_Witness ==
    /\ Running
    /\ Len(foodItems) = 3
    /\ foodItems[3].postedAt.type = "Date"
    /\ foodItems[3].category = "bakery"
    /\ activeTab = "listings"
    /\ newFoodItem.title = ""
    /\ searchTerm = "APPLE"
    /\ selectedCategory = "bakery"

\* C14: login, logout, tab switches, search and filter changes and draft
\* edits leave the catalog and the stored value unchanged; the postedBy of
\* a posted item never changes afterwards, whoever logs in or out.
C14_OnlySubmitChangesCatalog ==
    [][/\ ( \/ \E role \in UserRoles : handleLogin(role)
            \/ handleLogout
            \/ \E tab \in Tabs : setActiveTab(tab)
            \/ \E value \in TypedSearchTerms : setSearchTerm(value)
            \/ \E category \in PickedFilters : setSelectedCategory(category)
            \/ \E key \in Keystrokes(newFoodItem) : handleInputChange(key[1], key[2])
            \/ \E value \in PickedCategories : handleCategoryChange(value) )
              => (foodItems' = foodItems /\ localStorage' = localStorage)
       /\ (foodItems' # foodItems \/ localStorage' # localStorage)
              => (handleSubmitFoodItem \/ PageLoad)
       /\ \A i \in 1..Len(foodItems) :
              i <= Len(foodItems') => foodItems'[i].postedBy = foodItems[i].postedBy]_vars

C14_Witness ==
    /\ LoggedIn
    /\ currentUser.role = "receiver"
    /\ selectedCategory = "bakery"
    /\ Len(foodItems) = 3
    /\ foodItems[3].postedBy = "Local NGO"

\* C15: the form is submitted only while a user is active, so every item
\* posted through the form carries the canned name of a role and no item
\* is posted by 'Anonymous'.
C15_NoAnonymousPosting ==
    /\ \A i \in 1..Len(foodItems) :
          /\ foodItems[i].postedBy # "Anonymous"
          /\ foodItems[i].id \notin {<<"1">>, <<"2">>}
                => foodItems[i].postedBy \in {"Food Donor", "Food Receiver", "Local NGO"}
    /\ \A i \in 1..Len(localStorage.items) :
          localStorage.items[i].postedBy # "Anonymous"

C15_Witness ==
    /\ Running
    /\ currentUser = NoUser
    /\ activeTab = "post"
    /\ Len(foodItems) = 3
    /\ foodItems[3].postedBy = "Food Donor"

(***************************************************************************)
(* Two tabs on one store                                                   *)
(***************************************************************************)
\* The item as JSON.stringify writes it.
Written(item) ==
    [item EXCEPT !.postedAt = [type |-> "string", time |-> item.postedAt.time]]

Persisted(item) ==
    \E j \in 1..Len(localStorage.items) : localStorage.items[j] = Written(item)

\* A running tab shows an item that the persisted catalog does not contain.
LostUpdate(tab) ==
    /\ tab.appState = "running"
    /\ \E i \in 1..Len(tab.foodItems) : ~Persisted(tab.foodItems[i])

Snapshot(tab) ==
    [kind |-> "array",
     items |-> [i \in 1..Len(tab.foodItems) |-> Written(tab.foodItems[i])]]

\* C16: with two browser tabs sharing the store, each having read the
\* catalog once at its own page load, writes are whole snapshots of the
\* writing tab's catalog with no reconciliation: the persisted catalog is
\* always the snapshot of one running tab, and a running tab shows an item
\* missing from the persisted catalog only when both tabs have been opened;
\* with a single tab no item is ever lost. The lost update itself (tab A
\* adds an item, then tab B adds one, and the persisted catalog lacks A's
\* item) is the reachable state C16_Witness.
C16_LostUpdateNeedsTwoTabs ==
    /\ (LostUpdate(Context) \/ LostUpdate(other))
          => (appState # "unmounted" /\ other.appState # "unmounted")
    /\ (Running \/ other.appState = "running")
          => \/ Running /\ localStorage = Snapshot(Context)
             \/ other.appState = "running" /\ localStorage = Snapshot(other)

\* Tab A (now in the background) added its item first, tab B (foreground)
\* added its item afterwards; the store holds B's snapshot without A's item.
C16_Witness ==
    /\ Running
    /\ other.appState = "running"
    /\ Len(other.foodItems) = 3
    /\ Len(foodItems) = 3
    /\ other.foodItems[3].postedAt.type = "Date"
    /\ foodItems[3].postedAt.type = "Date"
    /\ other.foodItems[3].id # foodItems[3].id
    /\ ~Persisted(other.foodItems[3])
    /\ Persisted(foodItems[3])
    /\ Len(localStorage.items) = 3

=============================================================================
